---- MODULE Spec2Model ----
(***************************************************************************)
(* WinAppSwitcher (src/app_switcher.py): a console loop that reads one     *)
(* key at a time and brings the first visible window whose title contains  *)
(* the fragment bound to that key to the foreground.                        *)
(*                                                                         *)
(* Text is modelled as a sequence of one-character strings, so that        *)
(* upper(), strip() and the substring test `in` are computed, not assumed. *)
(* The platform (win32gui, msvcrt) is the environment: every call of it    *)
(* that can raise is given both outcomes.                                  *)
(***************************************************************************)
EXTENDS Integers, Sequences, FiniteSets, TLC

\* ------------------------------------------------------------------ bounds

\* Largest number of top-level windows EnumWindows hands to the callback.
MaxWindows == 2

\* Largest number of entries of a raw binding table.
MaxBindings == 3

\* ------------------------------------------------------------------- text

\* Lower-case / upper-case letter pairs of the characters the model uses.
CasePairs ==
    { <<"a", "A">>, <<"e", "E">>, <<"n", "N">>, <<"o", "O">>,
      <<"q", "Q">>, <<"s", "S">>, <<"x", "X">> }

\* str.isalpha() of one decoded character.
isalpha(c) == \E p \in CasePairs : c = p[1] \/ c = p[2]

\* str.upper() of one character: letters are mapped, the rest is kept.
UpperChar(c) ==
    IF \E p \in CasePairs : p[1] = c
    THEN (CHOOSE p \in CasePairs : p[1] = c)[2]
    ELSE c

\* str.upper() of a text.
upper(s) == [i \in 1..Len(s) |-> UpperChar(s[i])]

\* str.capitalize() of the one-character text getch() delivers.
capitalize(c) == UpperChar(c)

\* Python's `sub in text`: sub occurs in text as a contiguous run.
Contains(sub, text) ==
    \E k \in 0..(Len(text) - Len(sub)) :
        \A i \in 1..Len(sub) : text[k + i] = sub[i]

\* Characters str.strip() removes.
Whitespace == {" "}

RECURSIVE lstrip(_)
lstrip(s) ==
    IF s # <<>> /\ Head(s) \in Whitespace THEN lstrip(Tail(s)) ELSE s

RECURSIVE rstrip(_)
rstrip(s) ==
    IF s # <<>> /\ s[Len(s)] \in Whitespace
    THEN rstrip(SubSeq(s, 1, Len(s) - 1))
    ELSE s

\* str.strip().
strip(s) == rstrip(lstrip(s))

\* --------------------------------------------------------------- bindings

\* The fragments of the binding tables below.
FragEx == <<"E", "x">>
FragNo == <<"N", "o">>
FragSp == <<" ">>

\* KEY_BINDINGS as shipped, cut to the letters the model types: a key with
\* an empty fragment, and keys with fragments.  An ordered mapping is a
\* sequence of <<key, fragment>> pairs with distinct keys.
ShippedBindings ==
    << <<"A", <<>> >>, <<"E", FragEx>>, <<"N", FragNo>> >>

\* A customised table: a lower-case key, a whitespace-only fragment.
CustomBindings ==
    << <<"e", FragEx>>, <<"S", FragSp>>, <<"N", FragNo>> >>

\* The tables a run may be started with (KEY_BINDINGS is edited by hand).
BindingTables == { ShippedBindings, CustomBindings, <<>> }

\* Raw binding tables: keys that are empty, blank, upper and lower case;
\* fragments that are empty, blank, plain, and padded with a blank.
RawKeys == {"", " ", "A", "e", "N"}
RawFragments == { <<>>, <<" ">>, FragEx, <<" ", "N", "o">> }
RawTables ==
    UNION { { b \in [1..n -> RawKeys \X RawFragments] :
                \A i \in 1..n, j \in 1..n : i # j => b[i][1] # b[j][1] }
            : n \in 0..MaxBindings }

\* dict.keys() and dict[key].
Keys(b) == { b[i][1] : i \in 1..Len(b) }
Lookup(b, k) == (CHOOSE p \in { b[i] : i \in 1..Len(b) } : p[1] = k)[2]

\* The text of a key: a key is one character, or the empty string.
KeyText(k) == IF k = "" THEN <<>> ELSE <<k>>

\* Faulty variant of clean_key_bindings: the entries are tested unstripped.
RECURSIVE clean_key_bindings_unstripped(_)
clean_key_bindings_unstripped(b) ==
    IF b = <<>> THEN <<>>
    ELSE LET key == Head(b)[1]
             value == Head(b)[2]
             rest == clean_key_bindings_unstripped(Tail(b))
         IN IF KeyText(key) # <<>> /\ value # <<>>
            THEN <<Head(b)>> \o rest
            ELSE rest

\* The dict comprehension of clean_key_bindings: order kept.
RECURSIVE clean_key_bindings(_)
clean_key_bindings(b) ==
    IF b = <<>> THEN <<>>
    ELSE LET key == Head(b)[1]
             value == Head(b)[2]
             rest == clean_key_bindings(Tail(b))
         IN IF strip(KeyText(key)) # <<>> /\ strip(value) # <<>>
            THEN <<Head(b)>> \o rest
            ELSE rest

\* The header row of the table.
head == <<"Key", "Application", "Key", "Application">>

\* Faulty variant of create_table: the row count is rounded down.
create_table_floor(b) ==
    LET data_list == clean_key_bindings(b)
        row_count == Len(data_list)
        row_count_new == row_count \div 2
        row(i) ==
            LET second_column_index == i + row_count_new
            IN IF second_column_index < row_count
               THEN << <<data_list[i + 1][1]>>, data_list[i + 1][2],
                       <<data_list[second_column_index + 1][1]>>,
                       data_list[second_column_index + 1][2] >>
               ELSE << <<data_list[i + 1][1]>>, data_list[i + 1][2], <<>>, <<>> >>
    IN <<head>> \o [j \in 1..row_count_new |-> row(j - 1)]

\* create_table: [head] followed by ceil(n/2) rows of two key/app pairs.
create_table(b) ==
    LET data_list == clean_key_bindings(b)
        row_count == Len(data_list)
        row_count_new == (row_count \div 2) + (IF row_count % 2 # 0 THEN 1 ELSE 0)
        row(i) ==
            LET second_column_index == i + row_count_new
            IN IF second_column_index < row_count
               THEN << <<data_list[i + 1][1]>>, data_list[i + 1][2],
                       <<data_list[second_column_index + 1][1]>>,
                       data_list[second_column_index + 1][2] >>
               ELSE << <<data_list[i + 1][1]>>, data_list[i + 1][2], <<>>, <<>> >>
    IN <<head>> \o [j \in 1..row_count_new |-> row(j - 1)]

\* ---------------------------------------------------------------- windows

SW_SHOWNORMAL == "SW_SHOWNORMAL"
SW_SHOWMINIMIZED == "SW_SHOWMINIMIZED"

\* Window titles: one that contains FragEx only up to case, one that holds
\* it (and a blank) inside a longer title, one that holds neither.
Titles == { <<"e", "X">>, <<"n", " ", "E", "x">>, <<"o", "n">> }

\* What the platform reports of one window; its handle is its position in
\* the enumeration.
Window == [visible : BOOLEAN, title : Titles, show : {SW_SHOWNORMAL, SW_SHOWMINIMIZED}]

WindowLists == UNION { [1..n -> Window] : n \in 0..MaxWindows }

\* The console the key is typed into: no window of the list.
CONSOLE == 0

\* ------------------------------------------------------------- keystrokes

\* The bytes msvcrt.getch() delivers in the model: e E a n q s, the digit 5,
\* space, Escape, the prefix 0x00 of a function key, the prefix 0xE0 of an
\* arrow key, and 0x84 (a-umlaut in the console's OEM code page).
Bytes == {101, 69, 97, 110, 113, 115, 53, 32, 27, 0, 224, 132}

\* The character of an ASCII byte.
chr(b) ==
    CASE b = 101 -> "e" [] b = 69 -> "E" [] b = 97 -> "a" [] b = 110 -> "n"
      [] b = 113 -> "q" [] b = 115 -> "s" [] b = 53 -> "5" [] b = 32 -> " "
      [] b = 27 -> "ESC" [] b = 0 -> "NUL" [] OTHER -> "?"

\* bytes.decode() is UTF-8: a lone byte decodes iff it is ASCII; any other
\* lone byte raises UnicodeDecodeError.
DecodeRaises(b) == b >= 128

\* ------------------------------------------------------------------ state

VARIABLES
    KEY_BINDINGS,   \* the binding table of this run
    table,          \* self.table, built by create_table
    windows,        \* the platform's top-level windows, in enumeration order
    foreground,     \* handle of the foreground window (CONSOLE: the console)
    pc,             \* position of the process in start_loop / activate_app
    byte,           \* the byte the last getch() returned (-1: none yet)
    key_input,      \* start_loop's key_input
    call,           \* activate_app in this iteration: "none", "running", "returned"
    target,         \* activate_app's argument
    found,          \* activate_app's found flag
    idx,            \* handle EnumWindows hands to the callback next
    stop,           \* the callback returned False
    exc,            \* the callback raised; the exception is in flight
    selected,       \* handle of the window whose title matched (0: none)
    calls,          \* platform calls of the current activate_app, in order,
                    \* each <<call, handle, result>>
    display,        \* what was printed since the last cls
    exit_status,    \* "none" while running, then the process's exit status
    env             \* "hidden" when another program hid a window since the
                    \* last render, else "none"

vars ==
    << KEY_BINDINGS, table, windows, foreground, pc, byte, key_input, call,
       target, found, idx, stop, exc, selected, calls, display, exit_status,
       env >>

\* The lines the program prints: a kind and the text put into the line.
MsgTable(t) == [kind |-> "table", text |-> <<>>, rows |-> t]
MsgActivating(title) == [kind |-> "Activating window", text |-> title]
MsgErrorActivating == [kind |-> "Error activating window", text |-> <<>>]
MsgErrorEnum == [kind |-> "An error occurred while checking windows", text |-> <<>>]
MsgNotFound(t) == [kind |-> "not found", text |-> t]

\* __init__: the table is built once, then start_loop is entered.
Init ==
    /\ KEY_BINDINGS \in BindingTables
    /\ table = create_table(KEY_BINDINGS)
    /\ windows \in WindowLists
    /\ foreground = CONSOLE
    /\ pc = "render"
    /\ byte = -1
    /\ key_input = ""
    /\ call = "none"
    /\ target = <<>>
    /\ found = FALSE
    /\ idx = 1
    /\ stop = FALSE
    /\ exc = FALSE
    /\ selected = 0
    /\ calls = <<>>
    /\ display = <<>>
    /\ exit_status = "none"
    /\ env = "none"

\* The process before __init__ has built the table, on any raw table.
TableInit ==
    /\ KEY_BINDINGS \in RawTables
    /\ table = <<>>
    /\ windows = <<>>
    /\ foreground = CONSOLE
    /\ pc = "create_table"
    /\ byte = -1
    /\ key_input = ""
    /\ call = "none"
    /\ target = <<>>
    /\ found = FALSE
    /\ idx = 1
    /\ stop = FALSE
    /\ exc = FALSE
    /\ selected = 0
    /\ calls = <<>>
    /\ display = <<>>
    /\ exit_status = "none"
    /\ env = "none"

\* self.create_table()
CreateTable ==
    /\ pc = "create_table"
    /\ table' = create_table(KEY_BINDINGS)
    /\ pc' = "render"
    /\ UNCHANGED << env, KEY_BINDINGS, windows, foreground, byte, key_input, call,
                    target, found, idx, stop, exc, selected, calls, display,
                    exit_status >>

\* -------------------------------------------------------------- start_loop

\* Faulty variant of RenderDisplay: the table is printed without the cls.
RenderDisplay_noclear(d, t) == Append(d, MsgTable(t))

\* Faulty variant of RenderDisplay: the table is drawn anew without its rows.
RenderDisplay_rebuilt(d, t) == <<MsgTable(<<head>>)>>

\* The display after `clear()` and `print(self.table.draw())`: what was on
\* it is gone, the table is on it.
RenderDisplay(d, t) == <<MsgTable(t)>>

\* os.system('cls'); print(self.table.draw()).  The locals of the
\* activate_app call that has returned are gone by now, and the record of
\* its platform calls is dropped with them; found keeps its last value until
\* the next call assigns it.
Render ==
    /\ pc = "render"
    /\ display' = RenderDisplay(display, table)
    /\ pc' = "getch"
    /\ target' = <<>>
    /\ idx' = 1
    /\ stop' = FALSE
    /\ selected' = 0
    /\ calls' = <<>>
    /\ env' = "none"
    /\ UNCHANGED << KEY_BINDINGS, table, windows, foreground, byte, key_input,
                    call, found, exc, exit_status >>

\* `if not key_input.isalpha(): break`
IsExitKey(k) == ~isalpha(k)

\* key_input = msvcrt.getch().decode().capitalize(), then the isalpha test.
\* The key reaches the console only while the console is the foreground
\* window.  A byte that does not decode raises out of start_loop: nothing
\* catches it and the interpreter exits with status 1.  A non-letter breaks
\* out of the loop; __init__ and the module then end, status 0.
ReadKey(b) ==
    /\ pc = "getch"
    /\ byte' = b
    /\ foreground' = CONSOLE
    /\ call' = "none"
    /\ IF DecodeRaises(b)
       THEN /\ pc' = "crashed"
            /\ exit_status' = "1"
            /\ UNCHANGED key_input
       ELSE /\ key_input' = capitalize(chr(b))
            /\ IF IsExitKey(key_input')
               THEN pc' = "exited" /\ exit_status' = "0"
               ELSE pc' = "dispatch" /\ UNCHANGED exit_status
    /\ UNCHANGED << env, KEY_BINDINGS, table, windows, target, found, idx, stop,
                    exc, selected, calls, display >>

\* `win32gui.EnumWindows(enum_callback, None)` is called.
CallEnumWindows == <<"EnumWindows", CONSOLE, "call">>

\* Faulty variant of IsEmptyTarget: the early return is never taken.
IsEmptyTarget_never(t) == FALSE

\* `if not target: return`
IsEmptyTarget(t) == t = <<>>

\* Faulty variant of FoundAtEntry: the flag of the previous call is kept.
FoundAtEntry_kept(f) == f

\* `found = False` at the entry of activate_app, whatever the flag was.
FoundAtEntry(f) == FALSE

\* `if key_input in KEY_BINDINGS.keys(): self.activate_app(KEY_BINDINGS[key_input])`
\* with activate_app's entry: the early return, or found = False and the call
\* of EnumWindows.
Dispatch ==
    /\ pc = "dispatch"
    /\ IF key_input \in Keys(KEY_BINDINGS)
       THEN LET t == Lookup(KEY_BINDINGS, key_input)
            IN /\ target' = t
               /\ calls' = IF IsEmptyTarget(t) THEN <<>> ELSE <<CallEnumWindows>>
               /\ selected' = 0
               /\ found' = FoundAtEntry(found)
               /\ idx' = 1
               /\ stop' = FALSE
               /\ exc' = FALSE
               /\ IF IsEmptyTarget(t)
                  THEN pc' = "render" /\ call' = "returned"
                  ELSE pc' = "enum" /\ call' = "running"
       ELSE /\ pc' = "render"
            /\ UNCHANGED << target, calls, selected, found, idx, stop, exc, call >>
    /\ UNCHANGED << env, KEY_BINDINGS, table, windows, foreground, byte, key_input,
                    display, exit_status >>

\* ------------------------------------------------------------ environment

\* The window list without its j-th window.
RemoveAt(ws, j) == [i \in 1..(Len(ws) - 1) |-> IF i < j THEN ws[i] ELSE ws[i + 1]]

\* Other programs change one window between two key reads: a window opens
\* on top, a window closes, a window is hidden or shown.  Handles are
\* positions, so the foreground handle moves with its window; when the
\* foreground window closes the platform gives the foreground to any window
\* or to the console.  The lists before the first key are all initial
\* states already.
WindowsChange ==
    /\ pc = "getch"
    /\ byte # -1
    /\ \/ /\ Len(windows) < MaxWindows
          /\ \E w \in Window : windows' = <<w>> \o windows
          /\ foreground' = IF foreground = CONSOLE THEN CONSOLE ELSE foreground + 1
          /\ UNCHANGED env
       \/ \E j \in 1..Len(windows) :
             /\ windows' = RemoveAt(windows, j)
             /\ IF foreground = j
                THEN foreground' \in 0..Len(windows')
                ELSE foreground' = IF foreground > j THEN foreground - 1 ELSE foreground
             /\ UNCHANGED env
       \/ \E j \in 1..Len(windows) :
             /\ windows' = [windows EXCEPT ![j].visible = ~@]
             /\ env' = IF windows[j].visible THEN "hidden" ELSE env
             /\ UNCHANGED foreground
    /\ UNCHANGED << KEY_BINDINGS, table, pc, byte, key_input, call, target, found,
                    idx, stop, exc, selected, calls, display, exit_status >>

\* ------------------------------------------------------------ activate_app

\* The platform calls a callback makes; each may raise.
FailPoints ==
    { "none", "IsWindowVisible", "GetWindowText", "GetWindowPlacement",
      "ShowWindow", "SetForegroundWindow" }

\* Faulty variant of IsWindowVisible: the visibility test is dropped.
IsWindowVisible_hidden(w) == TRUE

\* `win32gui.IsWindowVisible(window_handle)`
IsWindowVisible(w) == w.visible

\* `title = win32gui.GetWindowText(window_handle).upper()`
GetWindowTextUpper(w) == upper(w.title)

\* `target.upper() in title`
TitleMatches(t, w) == Contains(upper(t), GetWindowTextUpper(w))

\* Faulty variant of is_minimized: every matched window is restored.
is_minimized_always(w) == TRUE

\* `is_minimized = placement[1] == win32con.SW_SHOWMINIMIZED`
is_minimized(w) == w.show = SW_SHOWMINIMIZED

\* Faulty variant of ReturnAfterMatch: the enumeration goes on after a match.
ReturnAfterMatch_continue == TRUE

\* The callback's return value once a title matched: False stops EnumWindows.
ReturnAfterMatch == FALSE

\* The outcome of one run of the callback: the calls it made, the lines it
\* printed, the show-state it left the window in, whether the title matched,
\* whether the window got the foreground (found is assigned True only then),
\* and how it ended: "True", "False" or "raise".
Outcome(c, o, sh, m, fg, ret) ==
    [calls |-> c, out |-> o, show |-> sh, matched |-> m, fg |-> fg, ret |-> ret]

\* Faulty variant of TryActivate: after a failed activation the callback
\* returns True and the enumeration goes on.
TryActivate_goes_on(h, w, fail, c, o) ==
    LET restored == IF is_minimized(w) THEN SW_SHOWNORMAL ELSE w.show
        cShow == IF is_minimized(w) THEN Append(c, <<"ShowWindow", h, "ok">>) ELSE c
    IN IF is_minimized(w) /\ fail = "ShowWindow"
       THEN Outcome(Append(c, <<"ShowWindow", h, "raise">>),
                    Append(o, MsgErrorActivating), w.show, TRUE, FALSE, "True")
       ELSE IF fail = "SetForegroundWindow"
       THEN Outcome(Append(cShow, <<"SetForegroundWindow", h, "raise">>),
                    Append(o, MsgErrorActivating), restored, TRUE, FALSE, "True")
       ELSE Outcome(Append(cShow, <<"SetForegroundWindow", h, "ok">>),
                    o, restored, TRUE, TRUE, "False")

\* Faulty variant of TryActivate: the restore has a try block of its own, so
\* the foreground request follows a failed restore too.
TryActivate_separate(h, w, fail, c, o) ==
    LET cShow == IF is_minimized(w)
                 THEN Append(c, <<"ShowWindow", h,
                                  IF fail = "ShowWindow" THEN "raise" ELSE "ok">>)
                 ELSE c
        oShow == IF is_minimized(w) /\ fail = "ShowWindow"
                 THEN Append(o, MsgErrorActivating) ELSE o
        restored == IF is_minimized(w) /\ fail # "ShowWindow"
                    THEN SW_SHOWNORMAL ELSE w.show
    IN IF fail = "SetForegroundWindow"
       THEN Outcome(Append(cShow, <<"SetForegroundWindow", h, "raise">>),
                    Append(oShow, MsgErrorActivating), restored, TRUE, FALSE, "False")
       ELSE Outcome(Append(cShow, <<"SetForegroundWindow", h, "ok">>),
                    oShow, restored, TRUE, TRUE, "False")

\* The try block of the callback: ShowWindow(SW_RESTORE) if minimized, then
\* SetForegroundWindow, then found = True; `except Exception` prints the
\* error.  Either way the callback then returns False.
TryActivate(h, w, fail, c, o) ==
    LET ret == IF ReturnAfterMatch THEN "True" ELSE "False"
        restored == IF is_minimized(w) THEN SW_SHOWNORMAL ELSE w.show
        cShow == IF is_minimized(w) THEN Append(c, <<"ShowWindow", h, "ok">>) ELSE c
    IN IF is_minimized(w) /\ fail = "ShowWindow"
       THEN Outcome(Append(c, <<"ShowWindow", h, "raise">>),
                    Append(o, MsgErrorActivating), w.show, TRUE, FALSE, ret)
       ELSE IF fail = "SetForegroundWindow"
       THEN Outcome(Append(cShow, <<"SetForegroundWindow", h, "raise">>),
                    Append(o, MsgErrorActivating), restored, TRUE, FALSE, ret)
       ELSE Outcome(Append(cShow, <<"SetForegroundWindow", h, "ok">>),
                    o, restored, TRUE, TRUE, ret)

\* enum_callback(window_handle, _) on window w with handle h, where the
\* platform call named by fail raises.  An exception of the visibility, title
\* or placement query is outside the try block and leaves the callback.
enum_callback(h, w, t, fail) ==
    IF fail = "IsWindowVisible"
    THEN Outcome(<< <<"IsWindowVisible", h, "raise">> >>, <<>>, w.show, FALSE, FALSE, "raise")
    ELSE IF ~IsWindowVisible(w)
    THEN Outcome(<< <<"IsWindowVisible", h, "False">> >>, <<>>, w.show, FALSE, FALSE, "True")
    ELSE LET c1 == << <<"IsWindowVisible", h, "True">> >>
         IN IF fail = "GetWindowText"
            THEN Outcome(Append(c1, <<"GetWindowText", h, "raise">>),
                         <<>>, w.show, FALSE, FALSE, "raise")
            ELSE LET c2 == Append(c1, <<"GetWindowText", h, "ok">>)
                 IN IF ~TitleMatches(t, w)
                    THEN Outcome(c2, <<>>, w.show, FALSE, FALSE, "True")
                    ELSE LET o1 == <<MsgActivating(GetWindowTextUpper(w))>>
                         IN IF fail = "GetWindowPlacement"
                            THEN Outcome(Append(c2, <<"GetWindowPlacement", h, "raise">>),
                                         o1, w.show, TRUE, FALSE, "raise")
                            ELSE TryActivate(h, w, fail,
                                     Append(c2, <<"GetWindowPlacement", h, w.show>>), o1)

\* EnumWindows hands the next window to the callback.
EnumCallback(fail) ==
    /\ pc = "enum"
    /\ ~stop /\ ~exc
    /\ idx <= Len(windows)
    /\ LET r == enum_callback(idx, windows[idx], target, fail)
       IN /\ calls' = calls \o r.calls
          /\ display' = display \o r.out
          /\ windows' = [windows EXCEPT ![idx].show = r.show]
          /\ selected' = IF r.matched THEN idx ELSE selected
          /\ foreground' = IF r.fg THEN idx ELSE foreground
          /\ found' = IF r.fg THEN TRUE ELSE found
          /\ stop' = (r.ret = "False")
          /\ exc' = (r.ret = "raise")
          /\ idx' = idx + 1
    /\ UNCHANGED << env, KEY_BINDINGS, table, pc, byte, key_input, call, target,
                    exit_status >>

\* The platform's EnumWindows call itself fails: at any point of the
\* enumeration, or on its return (pywin32 reports an enumeration its callback
\* stopped as a failure whenever the thread's last error is set).
EnumWindowsFails ==
    /\ pc = "enum"
    /\ ~exc
    /\ exc' = TRUE
    /\ calls' = Append(calls, <<"EnumWindows", CONSOLE, "raise">>)
    /\ UNCHANGED << env, KEY_BINDINGS, table, windows, foreground, pc, byte, key_input,
                    call, target, found, idx, stop, selected, display,
                    exit_status >>

\* Faulty variant of NotFoundLine: the line is printed when the window was found.
NotFoundLine_inverted(fnd, t) == IF fnd /\ t # <<>> THEN <<MsgNotFound(t)>> ELSE <<>>

\* `if not found and target: print(f'Window "{target}" not found.')`
NotFoundLine(fnd, t) == IF ~fnd /\ t # <<>> THEN <<MsgNotFound(t)>> ELSE <<>>

\* Faulty variant of EnumExceptLine: the handler swallows the failure silently.
EnumExceptLine_silent == <<>>

\* `except Exception as e: print(...)`: the handler of the try around
\* EnumWindows.
EnumExceptLine == <<MsgErrorEnum>>

\* EnumWindows returns normally (every window was handed over, or the
\* callback stopped it); then the not-found test, and activate_app returns.
EnumWindowsReturns ==
    /\ pc = "enum"
    /\ ~exc
    /\ stop \/ idx > Len(windows)
    /\ display' = display \o NotFoundLine(found, target)
    /\ pc' = "render"
    /\ call' = "returned"
    /\ UNCHANGED << env, KEY_BINDINGS, table, windows, foreground, byte, key_input,
                    target, found, idx, stop, exc, selected, calls, exit_status >>

\* EnumWindows raises (the callback's exception, or its own failure): the
\* handler prints; then the not-found test, and activate_app returns.
EnumWindowsRaises ==
    /\ pc = "enum"
    /\ exc
    /\ display' = display \o EnumExceptLine \o NotFoundLine(found, target)
    /\ pc' = "render"
    /\ call' = "returned"
    /\ exc' = FALSE
    /\ UNCHANGED << env, KEY_BINDINGS, table, windows, foreground, byte, key_input,
                    target, found, idx, stop, selected, calls, exit_status >>

\* ---------------------------------------------------------- specification

Next ==
    \/ Render
    \/ \E b \in Bytes : ReadKey(b)
    \/ Dispatch
    \/ \E fail \in FailPoints : EnumCallback(fail)
    \/ EnumWindowsFails
    \/ EnumWindowsReturns
    \/ EnumWindowsRaises
    \/ WindowsChange

Spec == Init /\ [][Next]_vars

\* One step of the EnumWindows call in progress.
EnumStep ==
    \/ \E fail \in FailPoints : EnumCallback(fail)
    \/ EnumWindowsFails
    \/ EnumWindowsReturns
    \/ EnumWindowsRaises

\* The loop is sequential code: once a statement can run it runs, and every
\* platform call returns or raises.  Only getch may wait for ever, so the
\* key read has no fairness.
LiveSpec ==
    /\ Init /\ [][Next]_vars
    /\ WF_vars(Render)
    /\ WF_vars(Dispatch)
    /\ WF_vars(EnumStep)

\* __init__ up to the first render, on every raw binding table.
TableNext ==
    \/ CreateTable
    \/ Render

TableSpec == TableInit /\ [][TableNext]_vars

TypeOK ==
    /\ KEY_BINDINGS \in BindingTables \cup RawTables
    /\ windows \in WindowLists
    /\ foreground \in 0..Len(windows)
    /\ pc \in {"create_table", "render", "getch", "dispatch", "enum", "exited", "crashed"}
    /\ call \in {"none", "running", "returned"}
    /\ found \in BOOLEAN /\ stop \in BOOLEAN /\ exc \in BOOLEAN
    /\ selected \in 0..Len(windows)
    /\ idx \in 1..(Len(windows) + 1)
    /\ exit_status \in {"none", "0", "1"}
    /\ env \in {"none", "hidden"}

\* ------------------------------------------------------- claim vocabulary

\* activate_app has just returned to start_loop.
Returned == pc = "render" /\ call = "returned"

\* A line of the given kind is on the display.
Printed(kind) == \E i \in 1..Len(display) : display[i].kind = kind

\* The three outcomes, as the lines that report them.
ReportsActivated == Printed("Activating window")
ReportsNotFound == Printed("not found")
ReportsError ==
    Printed("Error activating window") \/ Printed("An error occurred while checking windows")

\* Two characters that differ at most in case.
SameLetter(a, b) ==
    a = b \/ <<a, b>> \in CasePairs \/ <<b, a>> \in CasePairs

\* The title holds the fragment, case ignored (stated without upper()).
HoldsFragment(title, frag) ==
    \E k \in 0..(Len(title) - Len(frag)) :
        \A i \in 1..Len(frag) : SameLetter(title[k + i], frag[i])

\* Window j is visible and its title holds the target.
VisibleMatch(j) == windows[j].visible /\ HoldsFragment(windows[j].title, target)

\* The restore and foreground requests of the current call, in order.
IsRequest(c) == c[1] \in {"ShowWindow", "SetForegroundWindow"}
Requests == SelectSeq(calls, IsRequest)

\* Some call of the given name was made / ended the given way.
Called(op) == \E i \in 1..Len(calls) : calls[i][1] = op
CallResult(op, res) == \E i \in 1..Len(calls) : calls[i][1] = op /\ calls[i][3] = res

\* ------------------------------------------------------------------ claims

\* C1: the window activate_app selects is the first window in enumeration
\* order that is visible and whose title contains the fragment, case
\* ignored; a hidden window is never selected.  And when the enumeration ran
\* without a failure and selected nothing, no visible window matched.
C1_FirstVisibleMatch ==
    (pc = "enum" \/ Returned) /\ target # <<>> =>
        /\ selected # 0 =>
              /\ VisibleMatch(selected)
              /\ \A j \in 1..(selected - 1) : ~VisibleMatch(j)
        /\ (Returned /\ selected = 0 /\ ~Printed("An error occurred while checking windows"))
              => \A j \in 1..Len(windows) : ~VisibleMatch(j)

\* C1 witness: a hidden window whose title holds the fragment precedes the
\* visible match, and the visible one was selected.
C1_Witness ==
    /\ Returned /\ selected = 2
    /\ ~windows[1].visible /\ HoldsFragment(windows[1].title, target)

\* The requests of the current call without their results.
ReqOps == [i \in 1..Len(Requests) |-> <<Requests[i][1], Requests[i][2]>>]

Restore(h) == <<"ShowWindow", h>>
Foreground(h) == <<"SetForegroundWindow", h>>

\* The selected window was minimized when it was selected: the placement
\* query told so, or it raised and the window, untouched, still is.
SelectedWasMinimized ==
    IF CallResult("GetWindowPlacement", "raise")
    THEN windows[selected].show = SW_SHOWMINIMIZED
    ELSE CallResult("GetWindowPlacement", SW_SHOWMINIMIZED)

\* C2 as stated: a minimized selected window gets exactly one restore and
\* then exactly one foreground request; one that is not minimized gets no
\* restore and exactly one foreground request.
C2_RestoreThenForeground ==
    Returned /\ selected # 0 =>
        IF SelectedWasMinimized
        THEN ReqOps = <<Restore(selected), Foreground(selected)>>
        ELSE ReqOps = <<Foreground(selected)>>

\* C2 amended: when the placement query succeeds, a minimized selected window
\* gets exactly one restore request, followed by exactly one foreground
\* request if the restore succeeds and by none if it fails; a window that is
\* not minimized gets no restore and exactly one foreground request.  When
\* the placement query fails neither request is issued.
C2_RestoreThenForegroundUnlessFailed ==
    Returned /\ selected # 0 =>
        IF CallResult("GetWindowPlacement", "raise")
        THEN ReqOps = <<>>
        ELSE IF CallResult("GetWindowPlacement", SW_SHOWMINIMIZED)
        THEN IF CallResult("ShowWindow", "raise")
             THEN ReqOps = <<Restore(selected)>>
             ELSE ReqOps = <<Restore(selected), Foreground(selected)>>
        ELSE ReqOps = <<Foreground(selected)>>

\* C2 witness: a minimized window was selected, restored and then brought to
\* the foreground.
C2_Witness ==
    /\ Returned /\ selected # 0
    /\ CallResult("GetWindowPlacement", SW_SHOWMINIMIZED)
    /\ CallResult("ShowWindow", "ok") /\ CallResult("SetForegroundWindow", "ok")
    /\ windows[selected].show = SW_SHOWNORMAL /\ foreground = selected

\* C3: when a restore or foreground request fails, activate_app returns to
\* the loop, and the result it reports is Error, not NotFound or Activated.
C3_FailureReportsErrorOnly ==
    (Returned /\ (CallResult("ShowWindow", "raise") \/ CallResult("SetForegroundWindow", "raise")))
        => /\ exit_status = "none"
           /\ ReportsError
           /\ ~ReportsNotFound
           /\ ~ReportsActivated

\* C4: a call with a non-empty fragment reports exactly one of Activated,
\* NotFound, Error; NotFound only when no visible window matches, Activated
\* only when the foreground request succeeded.
C4_ExactlyOneOutcome ==
    Returned /\ target # <<>> =>
        /\ Cardinality({ o \in {"Activated", "NotFound", "Error"} :
                            \/ o = "Activated" /\ ReportsActivated
                            \/ o = "NotFound" /\ ReportsNotFound
                            \/ o = "Error" /\ ReportsError }) = 1
        /\ ReportsNotFound => \A j \in 1..Len(windows) : ~VisibleMatch(j)
        /\ ReportsActivated => CallResult("SetForegroundWindow", "ok")

\* The keystrokes that are no letters: 5, space, Escape, and the prefix
\* bytes of a function key and of an arrow key.
NonLetterBytes == {53, 32, 27, 0, 224}

\* The keystrokes that are letters: e E a n q s and a-umlaut.
LetterBytes == {101, 69, 97, 110, 113, 115, 132}

\* C5: a keystroke that is no letter moves the loop to Terminated with exit
\* status 0, and nothing happens after it.
C5_NonLetterExitsCleanly ==
    byte \in NonLetterBytes =>
        /\ pc = "exited"
        /\ exit_status = "0"
        /\ ~ENABLED Next

\* C6: the process ends only through the non-letter exit gesture: never by a
\* failure, and never on a letter.
C6_EndsOnlyByExitGesture ==
    pc \in {"exited", "crashed"} =>
        /\ pc = "exited"
        /\ exit_status = "0"
        /\ byte \notin LetterBytes

\* C7: activate_app with an empty fragment returns at once: no enumeration
\* call, no query, no window changed, nothing printed.
C7_EmptyFragmentIsNoOp ==
    [][ (/\ pc = "dispatch"
         /\ key_input \in Keys(KEY_BINDINGS)
         /\ Lookup(KEY_BINDINGS, key_input) = <<>>)
        => /\ pc' = "render" /\ call' = "returned"
           /\ calls' = <<>>
           /\ windows' = windows /\ foreground' = foreground
           /\ display' = display ]_vars

\* C7 witness: the key bound to the empty fragment was pressed and
\* activate_app has returned.
C7_Witness == Returned /\ key_input = "A" /\ target = <<>>

\* Every window of the enumeration was handed to the callback.
VisitedAll ==
    \A h \in 1..Len(windows) :
        \E i \in 1..Len(calls) : calls[i][1] = "IsWindowVisible" /\ calls[i][2] = h

\* The not-found line names the target.
ReportsNotFoundForTarget ==
    \E i \in 1..Len(display) : display[i].kind = "not found" /\ display[i].text = target

NoVisibleMatch == \A j \in 1..Len(windows) : ~VisibleMatch(j)

\* No platform call of the current activate_app raised.
NoCallRaised == \A i \in 1..Len(calls) : calls[i][3] # "raise"

\* C8 as stated: when no visible window's title holds the fragment, every
\* window is visited, no restore or foreground request is issued, and
\* NotFound is reported for the fragment.
C8_NoMatchFullPass ==
    Returned /\ target # <<>> /\ NoVisibleMatch =>
        /\ VisitedAll
        /\ Requests = <<>>
        /\ ReportsNotFoundForTarget

\* C8 amended: when no visible window's title holds the fragment, no restore
\* or foreground request is issued and NotFound is reported for the
\* fragment; every window is visited unless the enumeration call or one of
\* the callback's queries fails.
C8_NoMatchFullPassUnlessFailed ==
    Returned /\ target # <<>> /\ NoVisibleMatch =>
        /\ NoCallRaised => VisitedAll
        /\ Requests = <<>>
        /\ ReportsNotFoundForTarget

\* C8 witness: two windows, the first hidden with a title that holds the
\* fragment; both were visited and NotFound was reported.
C8_Witness ==
    /\ Returned /\ target # <<>> /\ NoVisibleMatch /\ NoCallRaised
    /\ Len(windows) = 2 /\ HoldsFragment(windows[1].title, target)
    /\ VisitedAll /\ ReportsNotFoundForTarget

\* C9: in one call only the selected window receives restore or foreground
\* requests, and the show-state and foreground status of every other window
\* are left as they were.
C9_OnlySelectedWindowTouched ==
    [][ pc = "enum" =>
          /\ \A j \in 1..Len(windows) :
                j # selected' =>
                    /\ windows'[j] = windows[j]
                    /\ (foreground' = j) = (foreground = j)
          /\ \A i \in 1..Len(calls') :
                IsRequest(calls'[i]) => calls'[i][2] = selected' ]_vars

\* C9 witness: the first of two visible matching windows was activated; the
\* second is still minimized.
C9_Witness ==
    /\ Returned /\ found /\ selected = 1 /\ foreground = 1
    /\ Len(windows) = 2 /\ VisibleMatch(2)
    /\ windows[2].show = SW_SHOWMINIMIZED

\* C10: when the EnumWindows call itself fails, the failure is caught inside
\* activate_app, the Error line is printed, and the process goes on: back in
\* the loop it renders and reads the next key.
C10_EnumerationFailureCaught ==
    CallResult("EnumWindows", "raise") =>
        /\ exit_status = "none"
        /\ pc \in {"enum", "render"}
        /\ pc = "render" =>
              /\ Printed("An error occurred while checking windows")
              /\ ENABLED Render

\* C10 witness: EnumWindows failed with no window handed over yet, and
\* activate_app has returned to the loop.
C10_Witness ==
    /\ Returned
    /\ calls = <<CallEnumWindows, <<"EnumWindows", CONSOLE, "raise">> >>
    /\ Len(windows) > 0

\* A text that holds a character that is no whitespace.
NotBlank(text) == \E i \in 1..Len(text) : text[i] \notin Whitespace

\* An entry whose key and fragment are both non-empty after trimming.
KeptEntry(e) == e[1] \notin {"", " "} /\ NotBlank(e[2])

\* C11: the cleaned registry holds exactly the entries of the raw table
\* whose key and fragment are non-empty after trimming, each with its
\* original fragment, in the order of the raw table.
C11_CleanKeepsNonBlankInOrder ==
    clean_key_bindings(KEY_BINDINGS) = SelectSeq(KEY_BINDINGS, KeptEntry)

\* C11 witness: the table was built from three entries of which the middle
\* one has a blank fragment; the padded fragment is kept as it is.
C11_Witness ==
    /\ pc = "render" /\ Len(table) = 2
    /\ Len(KEY_BINDINGS) = 3
    /\ KEY_BINDINGS[1] = <<"e", FragEx>>
    /\ KEY_BINDINGS[2] = <<"A", <<" ">> >>
    /\ KEY_BINDINGS[3][2] = <<" ", "N", "o">>
    /\ table[2] = << <<"e">>, FragEx, <<>>, <<>> >>

\* The filtered Registry of this run.
Registry == clean_key_bindings(KEY_BINDINGS)

\* The keystroke just handled was an ASCII letter.
LetterKeyHandled == byte \in LetterBytes /\ ~DecodeRaises(byte)

\* C12: a letter whose key is not in the filtered Registry causes no window
\* enumeration, no request and no message, and the loop continues; windows
\* are enumerated only for keys of the filtered Registry.
C12_UnboundKeyIsNoOp ==
    /\ Called("EnumWindows") => key_input \in Keys(Registry)
    /\ (pc = "render" /\ LetterKeyHandled /\ key_input \notin Keys(Registry)) =>
          /\ calls = <<>>
          /\ display = <<MsgTable(table)>>
          /\ exit_status = "none"

\* C13: for every binding of the Registry, whatever the case of its key in
\* the table, the lower-case and the upper-case keystroke of that letter both
\* call activate_app with the bound fragment.
C13_LookupIgnoresCase ==
    \A i \in 1..Len(Registry) :
        (/\ pc \in {"enum", "render"}
         /\ LetterKeyHandled
         /\ SameLetter(Registry[i][1], chr(byte)))
        => /\ call \in {"running", "returned"}
           /\ target = Registry[i][2]

\* The calls of EnumWindows recorded for the current activate_app.
IsEnumWindowsCall(c) == c = CallEnumWindows
EnumWindowsCalls == Len(SelectSeq(calls, IsEnumWindowsCall))

\* C14: an iteration clears the display and renders the table, then reads one
\* key, then dispatches: a key is read only from a display that holds exactly
\* the one freshly rendered table, nothing is rendered or read in between,
\* and a key found in the table leads to one activate_app call, which is
\* over before the next render.
C14_LoopOrder ==
    [][ /\ pc = "render" =>
              /\ pc' = "getch"
              /\ display' = <<MsgTable(table)>>
              /\ byte' = byte /\ call' = call
        /\ (pc = "getch" /\ pc' = "getch") =>
              /\ display' = display /\ byte' = byte /\ call' = call
        /\ (pc = "getch" /\ pc' # "getch") =>
              /\ display = <<MsgTable(table)>> /\ display' = display
              /\ byte' \in Bytes
              /\ pc' \in {"dispatch", "exited", "crashed"}
              /\ call' = "none"
        /\ pc = "dispatch" =>
              /\ byte' = byte
              /\ IF key_input \in Keys(KEY_BINDINGS)
                 THEN /\ call' \in {"running", "returned"}
                      /\ target' = Lookup(KEY_BINDINGS, key_input)
                      /\ pc' = IF call' = "running" THEN "enum" ELSE "render"
                 ELSE call' = "none" /\ pc' = "render"
        /\ pc = "enum" =>
              /\ byte' = byte /\ target' = target
              /\ call = "running"
              /\ EnumWindowsCalls' = 1
              /\ \/ pc' = "enum" /\ call' = "running"
                 \/ pc' = "render" /\ call' = "returned"
        /\ pc \in {"exited", "crashed"} => pc' = pc ]_vars

\* C14 witness: after a render and one key read, the one activate_app call
\* for that key has returned and printed under the table.
C14_Witness ==
    /\ Returned /\ target # <<>> /\ EnumWindowsCalls = 1
    /\ Len(display) > 1 /\ display[1] = MsgTable(table)

\* C15: a keystroke that is a letter is always followed by the loop having
\* rendered again and waiting at the key read.
C15_LetterKeyRendersAgain ==
    (byte \in LetterBytes /\ pc \in {"dispatch", "crashed"}) ~> (pc = "getch")

\* ceil(n / 2)
HalfUp(n) == (n + 1) \div 2

\* The cells (row, first column of the pair) of the table that show entry e.
CellPairsOf(e) ==
    { rc \in (2..Len(table)) \X {1, 3} :
        /\ table[rc[1]][rc[2]] = KeyText(e[1])
        /\ table[rc[1]][rc[2] + 1] = e[2] }

\* C16: the table is the header and ceil(n/2) data rows; data row i shows
\* entry i on the left and entry i + ceil(n/2) on the right, or two empty
\* cells where there is no such entry; every entry of the registry is shown
\* by exactly one cell pair; no entry gives no data row.
C16_TwoColumnLayout ==
    pc # "create_table" =>
        LET n == Len(Registry)
            h == HalfUp(n)
        IN /\ Len(table) = 1 + h
           /\ table[1] = head
           /\ \A i \in 1..h :
                 /\ Len(table[i + 1]) = 4
                 /\ table[i + 1][1] = KeyText(Registry[i][1])
                 /\ table[i + 1][2] = Registry[i][2]
                 /\ IF i + h <= n
                    THEN /\ table[i + 1][3] = KeyText(Registry[i + h][1])
                         /\ table[i + 1][4] = Registry[i + h][2]
                    ELSE /\ table[i + 1][3] = <<>>
                         /\ table[i + 1][4] = <<>>
           /\ \A j \in 1..n : Cardinality(CellPairsOf(Registry[j])) = 1
           /\ (n = 0 => table = <<head>>)

\* C16 witness: three entries rendered as two data rows, the last with an
\* empty right half.
C16_Witness ==
    /\ pc = "getch" /\ display = <<MsgTable(table)>>
    /\ Len(Registry) = 3 /\ Len(table) = 3
    /\ table[2][3] = KeyText(Registry[3][1])
    /\ table[3][1] = KeyText(Registry[2][1])
    /\ table[3][3] = <<>>

\* C17: no step changes the bindings or the table, and every render puts
\* that one table, the table of the bindings, on the display.
C17_TableIsFixed ==
    [][ /\ KEY_BINDINGS' = KEY_BINDINGS
        /\ table' = table
        /\ table = create_table(KEY_BINDINGS)
        /\ pc = "render" => display' = <<MsgTable(create_table(KEY_BINDINGS))>> ]_vars

\* C17 witness: the table with its rows rendered again after a key was
\* handled.
C17_Witness ==
    /\ pc = "getch" /\ byte \in LetterBytes
    /\ Len(table) > 1
    /\ display = <<MsgTable(table)>>

\* The window list as it was when the current activate_app was called: the
\* call changes nothing of it but the show-state of a window it restored.
PreCall ==
    IF selected # 0 /\ CallResult("ShowWindow", "ok")
    THEN [windows EXCEPT ![selected].show = SW_SHOWMINIMIZED]
    ELSE windows

\* What one call makes of a fragment and a window list, from handle h on,
\* when the platform call `fail` raises on handle k and EnumWindows itself
\* fails before handle ef (Len(ws) + 2: after the callback stopped it):
\* the platform calls, the lines, the selected handle, the found flag and
\* whether EnumWindows raised.
RECURSIVE Enumerate(_, _, _, _, _, _)
Enumerate(t, ws, h, k, fail, ef) ==
    IF ef = h
    THEN [calls |-> << <<"EnumWindows", CONSOLE, "raise">> >>, out |-> <<>>,
          sel |-> 0, fnd |-> FALSE, err |-> TRUE]
    ELSE IF h > Len(ws)
    THEN [calls |-> <<>>, out |-> <<>>, sel |-> 0, fnd |-> FALSE, err |-> FALSE]
    ELSE LET r == enum_callback(h, ws[h], t, IF h = k THEN fail ELSE "none")
         IN IF r.ret = "True"
            THEN LET rest == Enumerate(t, ws, h + 1, k, fail, ef)
                 IN [calls |-> r.calls \o rest.calls, out |-> r.out \o rest.out,
                     sel |-> IF r.matched THEN h ELSE rest.sel,
                     fnd |-> r.fg \/ rest.fnd, err |-> rest.err]
            ELSE IF r.ret = "raise"
            THEN [calls |-> r.calls, out |-> r.out,
                  sel |-> IF r.matched THEN h ELSE 0, fnd |-> r.fg, err |-> TRUE]
            ELSE [calls |-> IF ef = Len(ws) + 2
                            THEN Append(r.calls, <<"EnumWindows", CONSOLE, "raise">>)
                            ELSE r.calls,
                  out |-> r.out, sel |-> h, fnd |-> r.fg,
                  err |-> (ef = Len(ws) + 2)]

\* The record of calls shows the call `fail` of the callback to have raised
\* on handle k (k = 0 and "none": no call of the callback raised).
Blames(k, fail) ==
    IF fail = "none"
    THEN /\ k = 0
         /\ \A i \in 1..Len(calls) :
               calls[i][3] = "raise" => calls[i][1] = "EnumWindows"
    ELSE \E i \in 1..Len(calls) : calls[i] = <<fail, k, "raise">>

\* C18: what a call that has returned did and printed is what the fragment
\* and the window list of the time of the call give, with the platform call
\* that raised (if any): nothing of an earlier call enters.
C18_OutcomeFromFragmentAndWindows ==
    (Returned /\ target # <<>>) =>
        \E k \in 0..Len(windows), fail \in FailPoints, ef \in 0..(Len(windows) + 2) :
            LET e == Enumerate(target, PreCall, 1, k, fail, ef)
            IN /\ Blames(k, fail)
               /\ calls = <<CallEnumWindows>> \o e.calls
               /\ selected = e.sel
               /\ found = e.fnd
               /\ foreground = (IF e.fnd THEN e.sel ELSE CONSOLE)
               /\ display = <<MsgTable(table)>> \o e.out
                               \o (IF e.err THEN EnumExceptLine ELSE <<>>)
                               \o NotFoundLine(e.fnd, target)

\* C18 witness: since the previous key a window was hidden; the call passes
\* over the hidden first window, whose title holds the fragment, and
\* activates the second.
C18_Witness ==
    /\ Returned /\ env = "hidden"
    /\ Len(windows) = 2
    /\ ~windows[1].visible /\ HoldsFragment(windows[1].title, target)
    /\ selected = 2 /\ found /\ foreground = 2

\* The restore or the foreground request of the current call raised.
ActivationFailed ==
    CallResult("ShowWindow", "raise") \/ CallResult("SetForegroundWindow", "raise")

\* C19: when the activation of the selected window fails, the enumeration
\* is stopped all the same: the selected window is the first visible match,
\* no window after it is inspected, and no request goes to another window.
C19_StopsAfterFailedActivation ==
    ((pc = "enum" \/ Returned) /\ selected # 0 /\ ActivationFailed) =>
        /\ stop
        /\ idx = selected + 1
        /\ VisibleMatch(selected)
        /\ \A j \in 1..(selected - 1) : ~VisibleMatch(j)
        /\ \A i \in 1..Len(calls) :
              /\ calls[i][1] # "EnumWindows" => calls[i][2] <= selected
              /\ IsRequest(calls[i]) => calls[i][2] = selected

\* C19 witness: the foreground request on the first window failed, a second
\* visible match stands after it, and the call has returned.
C19_Witness ==
    /\ Returned /\ selected = 1
    /\ CallResult("SetForegroundWindow", "raise")
    /\ Len(windows) = 2 /\ VisibleMatch(2)

\* C20: a restore that failed is followed by no foreground request in that
\* call, and a foreground request on a window whose placement was minimized
\* comes after a restore of that window that succeeded.
C20_NoForegroundAfterFailedRestore ==
    /\ CallResult("ShowWindow", "raise") => ~Called("SetForegroundWindow")
    /\ \A i \in 1..Len(calls) :
          (/\ calls[i][1] = "SetForegroundWindow"
           /\ \E j \in 1..(i - 1) :
                 calls[j] = <<"GetWindowPlacement", calls[i][2], SW_SHOWMINIMIZED>>)
          => \E j \in 1..(i - 1) : calls[j] = <<"ShowWindow", calls[i][2], "ok">>

\* C20 witness: the restore of the minimized selected window failed and the
\* call has returned; the window is still minimized and the console still
\* has the foreground.
C20_Witness ==
    /\ Returned /\ selected # 0
    /\ CallResult("ShowWindow", "raise")
    /\ windows[selected].show = SW_SHOWMINIMIZED
    /\ foreground = CONSOLE

====
